---- MODULE Spec2Model ----
(***************************************************************************)
(* The server-driven layout renderer of the everything-app client:         *)
(* LayoutRenderer, SectionRenderer, ActionBar and the section components   *)
(* CardGrid, ListSection and RecommendationsSection; and the server's      *)
(* trips and itineraries routes with the data-access functions under them. *)
(*                                                                         *)
(* A render pass is modelled by the sequence of elements it produces, in   *)
(* document order.  Every element carries the path of the section it was   *)
(* produced for: <<2, 1>> is the first child of the second top-level       *)
(* section.  An optional property of the TypeScript types is a sequence of *)
(* length 0 (undefined) or 1 (the value).                                  *)
(***************************************************************************)
EXTENDS Naturals, Sequences, FiniteSets

VARIABLES config, loading, error, onAction, data,
          pc, output, previous, triggers, calls

\* The renderer: its inputs, the output of the last render pass and of the
\* pass before it, and the user's triggers with the calls they made.
rendererVars == <<config, loading, error, onAction, data,
                  pc, output, previous, triggers, calls>>

VARIABLES database, trips, itineraries, activities, autoIncrement,
          pending, reply, updateCalls

\* The server: whether getDb() yields a database, the rows of the tables,
\* the next auto-increment id of each table, the handler suspended between
\* its check and its write, the response on its way to the client, and
\* the calls of updateTrip that run side by side.
serverVars == <<database, trips, itineraries, activities, autoIncrement,
                pending, reply, updateCalls>>

VARIABLES isAuthenticated, draftTrip, newActivity, now, mutations, isPending,
          toasts, location

\* The trip-creation page: useAuth's flag, the draft trip and the activity form,
\* the clock that activity ids are made from, the inputs handed to
\* createTripMutation.mutate and whether the mutation is in flight, the
\* toasts on screen, and the route the browser is on.
pageVars == <<isAuthenticated, draftTrip, newActivity, now, mutations, isPending,
              toasts, location>>

vars == <<rendererVars, serverVars, pageVars>>

-----------------------------------------------------------------------------
(* Bounds of the model.                                                    *)

MaxNodes == 3
MaxItems == 2
MaxActions == 2
MaxTriggers == 1
MaxTrips == 2
MaxItineraries == 1
MaxActivities == 2
MaxEvents == 21
MaxDraft == 2
MaxToasts == 1
MaxSaves == 1

-----------------------------------------------------------------------------
(* Optional values and JavaScript truthiness.                              *)

None == <<>>

Some(v) == <<v>>

TruthyString(o) == o # None /\ o[1] # ""

TruthyBool(o) == o # None /\ o[1]

TruthyNumber(o) == o # None /\ o[1] # 0

-----------------------------------------------------------------------------
(* The types of shared/sdui.types.ts.                                      *)

SectionType ==
    {"header", "hero", "cards", "list", "timeline", "calendar", "map",
     "form", "gallery", "stats", "alerts", "recommendations", "footer"}

VisibilityCondition == {"always", "authenticated", "anonymous"}

ActionPosition == {"top", "bottom", "floating"}

-----------------------------------------------------------------------------
(* Section components (components/SDUI/sections).                          *)

DefaultColumns == 3

\* onClick={() => onAction?.(action.id, action.payload)} of one Button.
Button(origin, path, item, idx, action, handler) ==
    [el |-> "button", origin |-> origin, path |-> path, item |-> item,
     idx |-> idx, label |-> action.label, actionId |-> action.id,
     payload |-> action.payload, onAction |-> handler]

\* {item.actions && item.actions.length > 0 && item.actions.map(...)}
ItemButtons(path, i, item, handler) ==
    IF item.actions # None /\ Len(item.actions[1]) > 0
    THEN [k \in 1..Len(item.actions[1]) |->
             Button("item", path, i, k, item.actions[1][k], handler)]
    ELSE <<>>

RECURSIVE ItemsFrom(_, _, _, _)
\* items.map((item) => ...) from item i on: the item, then its buttons.
ItemsFrom(path, items, i, handler) ==
    IF i > Len(items)
    THEN <<>>
    ELSE <<[el |-> "item", path |-> path, idx |-> i, id |-> items[i].id,
            title |-> items[i].title]>>
         \o ItemButtons(path, i, items[i], handler)
         \o ItemsFrom(path, items, i + 1, handler)

\* A destructured prop: undefined when the caller did not pass it.
Prop(p, name) == IF name \in DOMAIN p THEN p[name] ELSE None

\* items.map of a component whose items prop is required: mapping over
\* undefined throws.
MapItems(path, p) ==
    IF Prop(p, "items") = None
    THEN <<[el |-> "throw", path |-> path]>>
    ELSE ItemsFrom(path, p.items[1], 1, Prop(p, "onAction"))

\* CardGrid: columns = 3 and spacing = "normal" when not passed.
CardGrid(path, p) ==
    LET columns == IF Prop(p, "columns") = None
                   THEN DefaultColumns ELSE p.columns[1]
        spacing == IF Prop(p, "spacing") = None
                   THEN "normal" ELSE p.spacing[1]
        gap == IF spacing = "compact" THEN "2"
               ELSE IF spacing = "spacious" THEN "8" ELSE "4"
    IN  <<[el |-> "sub", renderer |-> "CardGrid", path |-> path, props |-> p,
           columns |-> columns, gap |-> gap]>>
        \o MapItems(path, p)

ListSection(path, p) ==
    LET spacing == IF Prop(p, "spacing") = None
                   THEN "normal" ELSE p.spacing[1]
        spacingClass == IF spacing = "compact" THEN "py-2"
                        ELSE IF spacing = "spacious" THEN "py-4" ELSE "py-3"
    IN  <<[el |-> "sub", renderer |-> "ListSection", path |-> path,
           props |-> p, spacingClass |-> spacingClass]>>
        \o MapItems(path, p)

\* The component renders {title && <h3>} and a fixed text, never its items.
RecommendationsSection(path, p) ==
    <<[el |-> "sub", renderer |-> "RecommendationsSection", path |-> path,
       props |-> p]>>
    \o (IF TruthyString(Prop(p, "title"))
        THEN <<[el |-> "h3", path |-> path, text |-> p.title[1]]>>
        ELSE <<>>)
    \o <<[el |-> "text", path |-> path,
          text |-> "RecommendationsSection placeholder"]>>

\* A section component the dispatcher mounts: the element and its props.
Mount(renderer, path, p) ==
    <<[el |-> "sub", renderer |-> renderer, path |-> path, props |-> p]>>

\* A section component that renders its own title: the element, then the
\* title it was handed.
MountTitled(renderer, path, p) ==
    Mount(renderer, path, p)
    \o (IF TruthyString(Prop(p, "title"))
        THEN <<[el |-> "title", path |-> path, text |-> p.title[1]]>>
        ELSE <<>>)

\* The header and the hero render their title themselves.
HeaderSection(path, p) == MountTitled("HeaderSection", path, p)

HeroSection(path, p) == MountTitled("HeroSection", path, p)

\* The calendar and the map leave the title to the dispatcher.
CalendarSection(path, p) == Mount("CalendarSection", path, p)

MapSection(path, p) == Mount("MapSection", path, p)

-----------------------------------------------------------------------------
(* SectionRenderer.tsx.                                                    *)

\* section.content?.items
ContentItems(section) ==
    IF section.content = None THEN None ELSE section.content[1].items

\* section.content?.items, without the default.
ItemsWithoutDefault(section) == ContentItems(section)

\* The items handed over last to first.
ItemsLastFirst(section) ==
    IF ContentItems(section) = None
    THEN Some(<<>>)
    ELSE LET items == ContentItems(section)[1]
         IN  Some([i \in DOMAIN items |-> items[Len(items) + 1 - i]])

\* section.content?.items || []
ItemsOrEmpty(section) ==
    IF ContentItems(section) = None THEN Some(<<>>) ELSE ContentItems(section)

\* section.columns || 3
ColumnsOrDefault(section) ==
    IF TruthyNumber(section.columns) THEN section.columns[1]
    ELSE DefaultColumns

\* section.spacing || "normal"
SpacingOrNormal(section) ==
    IF TruthyString(section.spacing) THEN section.spacing[1] ELSE "normal"

\* The default branch without the type in its text.
PlaceholderWithoutType(type, path) ==
    <<[el |-> "placeholder", path |-> path,
       text |-> <<"Unknown section type">>]>>

\* The default branch of the switch.
Placeholder(type, path) ==
    <<[el |-> "placeholder", path |-> path,
       text |-> <<"Unknown section type: ", type>>]>>

renderSectionByType(section, handler, bag, path) ==
    LET type == section.type
        items == ItemsOrEmpty(section)
    IN  CASE type = "header" ->
               HeaderSection(path,
                     [title |-> section.title, items |-> Some(<<>>),
                      onAction |-> handler])
          [] type = "hero" ->
               HeroSection(path,
                     [title |-> section.title, items |-> items,
                      onAction |-> handler])
          [] type = "cards" ->
               CardGrid(path,
                     [items |-> items,
                      columns |-> Some(ColumnsOrDefault(section)),
                      spacing |-> Some(SpacingOrNormal(section)),
                      onAction |-> handler])
          [] type = "list" ->
               ListSection(path,
                     [items |-> items,
                      spacing |-> Some(SpacingOrNormal(section)),
                      onAction |-> handler])
          [] type = "timeline" ->
               Mount("TimelineSection", path,
                     [items |-> items, onAction |-> handler])
          [] type = "calendar" ->
               CalendarSection(path,
                     [title |-> section.title, data |-> bag,
                      onAction |-> handler])
          [] type = "map" ->
               MapSection(path,
                     [title |-> section.title, data |-> bag,
                      onAction |-> handler])
          [] type = "alerts" ->
               Mount("AlertsSection", path,
                     [items |-> items, onAction |-> handler])
          [] type = "recommendations" ->
               RecommendationsSection(path,
                     [items |-> items, onAction |-> handler])
          [] OTHER -> Placeholder(type, path)

containerClass(section) ==
    IF section.spacing = Some("compact") THEN "py-2"
    ELSE IF section.spacing = Some("spacious") THEN "py-12"
    ELSE "py-6"

\* The title rendered for every type, header and hero included.
SectionTitleForAll(section, path) ==
    IF TruthyString(section.title)
    THEN <<[el |-> "h2", path |-> path, text |-> section.title[1]]>>
    ELSE <<>>

\* {section.title && section.type !== "header" && section.type !== "hero" && <h2>}
SectionTitle(section, path) ==
    IF TruthyString(section.title) /\ section.type # "header"
       /\ section.type # "hero"
    THEN <<[el |-> "h2", path |-> path, text |-> section.title[1]]>>
    ELSE <<>>

RECURSIVE SectionRenderer(_, _, _, _)
RECURSIVE ChildrenFrom(_, _, _, _, _)

\* section.children.map((child) => <SectionRenderer .../>) from child i on.
ChildrenFrom(children, i, handler, bag, path) ==
    IF i > Len(children)
    THEN <<>>
    ELSE SectionRenderer(children[i], handler, bag, path \o <<i>>)
         \o ChildrenFrom(children, i + 1, handler, bag, path)

\* The children rendered only for the sections of config.sections and their
\* children: a depth limit of two.
SectionChildrenToDepthTwo(section, handler, bag, path) ==
    IF section.children # None /\ Len(section.children[1]) > 0
       /\ Len(path) < 2
    THEN ChildrenFrom(section.children[1], 1, handler, bag, path)
    ELSE <<>>

\* {section.children && section.children.length > 0 && ...}
SectionChildren(section, handler, bag, path) ==
    IF section.children # None /\ Len(section.children[1]) > 0
    THEN ChildrenFrom(section.children[1], 1, handler, bag, path)
    ELSE <<>>

\* SectionRenderer with the children placed above the section's content.
SectionRendererChildrenFirst(section, handler, bag, path) ==
    <<[el |-> "section", path |-> path, id |-> section.id,
       className |-> <<containerClass(section),
                       IF section.layout = Some("map") THEN ""
                       ELSE "container mx-auto px-4">>]>>
    \o SectionChildren(section, handler, bag, path)
    \o SectionTitle(section, path)
    \o renderSectionByType(section, handler, bag, path)

SectionRenderer(section, handler, bag, path) ==
    <<[el |-> "section", path |-> path, id |-> section.id,
       className |-> <<containerClass(section),
                       IF section.layout = Some("map") THEN ""
                       ELSE "container mx-auto px-4">>]>>
    \o SectionTitle(section, path)
    \o renderSectionByType(section, handler, bag, path)
    \o SectionChildren(section, handler, bag, path)

-----------------------------------------------------------------------------
(* ActionBar.tsx and LayoutRenderer.tsx.                                   *)

ActionBar(actions, handler) ==
    <<[el |-> "actionbar", path |-> <<>>]>>
    \o [k \in 1..Len(actions) |->
           Button("bar", <<>>, 0, k, actions[k], handler)]

RECURSIVE FilterNotPlaced(_)
\* The filter that also keeps the actions that have no position.
FilterNotPlaced(actions) ==
    IF actions = <<>> THEN <<>>
    ELSE (IF Head(actions).position \in {None, Some("floating")}
          THEN <<Head(actions)>> ELSE <<>>)
         \o FilterNotPlaced(Tail(actions))

RECURSIVE FilterFloating(_)
\* config.actions.filter((a) => a.position === "floating")
FilterFloating(actions) ==
    IF actions = <<>> THEN <<>>
    ELSE (IF Head(actions).position = Some("floating")
          THEN <<Head(actions)>> ELSE <<>>)
         \o FilterFloating(Tail(actions))

\* {config.actions && config.actions.length > 0 && <ActionBar .../>}
FloatingActions(cfg, handler) ==
    IF cfg.actions # None /\ Len(cfg.actions[1]) > 0
    THEN ActionBar(FilterFloating(cfg.actions[1]), handler)
    ELSE <<>>

RECURSIVE SectionsFromLast(_, _, _, _)
\* config.sections mapped from the last entry to the first.
SectionsFromLast(sections, i, handler, bag) ==
    IF i > Len(sections)
    THEN <<>>
    ELSE SectionsFromLast(sections, i + 1, handler, bag)
         \o SectionRenderer(sections[i], handler, bag, <<i>>)

RECURSIVE SectionsUntilUnknown(_, _, _, _)
\* config.sections mapped up to the first entry of a type that is not a
\* SectionType, which ends the pass.
SectionsUntilUnknown(sections, i, handler, bag) ==
    IF i > Len(sections)
    THEN <<>>
    ELSE SectionRenderer(sections[i], handler, bag, <<i>>)
         \o (IF sections[i].type \in SectionType
             THEN SectionsUntilUnknown(sections, i + 1, handler, bag)
             ELSE <<>>)

RECURSIVE SectionsFrom(_, _, _, _)
\* config.sections.map((section) => <SectionRenderer .../>) from entry i on.
SectionsFrom(sections, i, handler, bag) ==
    IF i > Len(sections)
    THEN <<>>
    ELSE SectionRenderer(sections[i], handler, bag, <<i>>)
         \o SectionsFrom(sections, i + 1, handler, bag)

\* The loading check of a component that shows the spinner until it has
\* rendered once.
LoadingUntilRendered(l) == TruthyBool(l) \/ output = <<>>

\* if (loading) return the spinner
LoadingTakeover(l) == TruthyBool(l)

\* if (error) return the error state
ErrorTakeover(e) == TruthyString(e)

\* LayoutRenderer with the error check placed before the loading check.
LayoutRendererErrorFirst(cfg, handler, bag, l, e) ==
    IF ErrorTakeover(e)
    THEN <<[el |-> "error", path |-> <<>>, text |-> e[1]]>>
    ELSE IF LoadingTakeover(l)
    THEN <<[el |-> "spinner", path |-> <<>>]>>
    ELSE SectionsFrom(cfg.sections, 1, handler, bag)
         \o FloatingActions(cfg, handler)

\* LayoutRenderer with the error state as a banner above the sections.
LayoutRendererErrorBanner(cfg, handler, bag, l, e) ==
    IF LoadingTakeover(l)
    THEN <<[el |-> "spinner", path |-> <<>>]>>
    ELSE (IF ErrorTakeover(e)
          THEN <<[el |-> "error", path |-> <<>>, text |-> e[1]]>>
          ELSE <<>>)
         \o SectionsFrom(cfg.sections, 1, handler, bag)
         \o FloatingActions(cfg, handler)

LayoutRenderer(cfg, handler, bag, l, e) ==
    IF LoadingTakeover(l)
    THEN <<[el |-> "spinner", path |-> <<>>]>>
    ELSE IF ErrorTakeover(e)
    THEN <<[el |-> "error", path |-> <<>>, text |-> e[1]]>>
    ELSE SectionsFrom(cfg.sections, 1, handler, bag)
         \o FloatingActions(cfg, handler)

-----------------------------------------------------------------------------
(* The inputs a host can hand to LayoutRenderer.                           *)

SectionIds == <<"s1", "s2", "s3", "s4", "s5">>

ItemIds == <<"i1", "i2", "i3", "i4">>

ActionIds == <<"a1", "a2", "a3", "a4">>

UnknownTypes == {"widget", ""}

SeqsUpTo(S, n) == UNION {[1..k -> S] : k \in 0..n}

BookAction ==
    [id |-> "book", label |-> "Book", type |-> "primary",
     action |-> "book_activity", payload |-> Some([activityId |-> 7])]

ShareAction ==
    [id |-> "share", label |-> "Share", type |-> "tertiary",
     action |-> "share_activity", payload |-> None]

\* The actions property of a content item: absent, or Book and Share.
ItemActionChoices == {None, Some(<<BookAction, ShareAction>>)}

ItemLists ==
    {[i \in DOMAIN c |->
         [id |-> ItemIds[i], title |-> "Eiffel Tower", actions |-> c[i]]] :
       c \in SeqsUpTo(ItemActionChoices, MaxItems)}

Contents ==
    {None, Some([items |-> None])}
      \cup {Some([items |-> Some(l)]) : l \in ItemLists}

OneItem ==
    <<[id |-> ItemIds[1], title |-> "Eiffel Tower",
       actions |-> Some(<<BookAction>>)]>>

Section(type, title, content, visibility) ==
    [id |-> SectionIds[1], type |-> type, title |-> title,
     content |-> content, layout |-> None, columns |-> None,
     spacing |-> None, visibility |-> visibility, children |-> None]

CardsNode ==
    Section("cards", Some("Trips"), Some([items |-> Some(OneItem)]), None)

WidgetNode ==
    Section("widget", Some("Extras"), None,
            Some([condition |-> "authenticated"]))

\* The sections a tree of several sections is built from.
NodePool == {CardsNode, WidgetNode}

ItemTypes ==
    {"header", "hero", "cards", "list", "timeline", "alerts",
     "recommendations"}

\* The sections of a layout with a single section.
SinglePool ==
    {Section(t, Some("Trips"), c, None) : t \in ItemTypes, c \in Contents}
      \cup {Section(t, Some("Trips"), Some([items |-> Some(OneItem)]), None) :
              t \in (SectionType \cup UnknownTypes) \ ItemTypes}
      \cup {Section("cards", t, None, None) : t \in {None, Some("")}}
      \cup {Section("list", Some("Trips"), Some([items |-> Some(OneItem)]),
                    Some([condition |-> c])) : c \in VisibilityCondition}
      \cup {[CardsNode EXCEPT !.spacing = Some(sp), !.columns = Some(n),
                              !.layout = l] :
              sp \in {"compact", "spacious"}, n \in {0, 2},
              l \in {Some("map")}}
      \cup {[CardsNode EXCEPT !.children = Some(<<>>)]}

RECURSIVE Forests(_)
\* The forests of exactly n sections: a first tree of k sections, then a
\* forest of the n - k others.
Forests(n) ==
    IF n = 0
    THEN {<<>>}
    ELSE UNION {
           {<<[a EXCEPT !.children =
                   IF kids = <<>> THEN None ELSE Some(kids)]>> \o rest :
              a \in NodePool, kids \in Forests(k - 1),
              rest \in Forests(n - k)} : k \in 1..n}

RECURSIVE WithIds(_)
\* Section ids are unique among siblings: the i-th sibling is SectionIds[i].
WithIds(forest) ==
    [i \in DOMAIN forest |->
        [forest[i] EXCEPT
           !.id = SectionIds[i],
           !.children = IF forest[i].children = None THEN None
                        ELSE Some(WithIds(forest[i].children[1]))]]

SectionLists ==
    {WithIds(f) : f \in UNION {Forests(n) : n \in 0..MaxNodes}}
      \cup {<<s>> : s \in SinglePool}

PositionChoices == {None} \cup {Some(q) : q \in ActionPosition}

\* The k-th layout action; every other one carries a payload.
LayoutAction(k, position) ==
    [id |-> ActionIds[k], label |-> "Save", type |-> "primary",
     action |-> "save_trip",
     payload |-> IF k % 2 = 1 THEN Some([tripId |-> k]) ELSE None,
     position |-> position]

ActionLists ==
    {None}
      \cup {Some([k \in DOMAIN c |-> LayoutAction(k, c[k])]) :
              c \in SeqsUpTo(PositionChoices, MaxActions)}

BaseActions ==
    Some(<<LayoutAction(1, Some("floating")), LayoutAction(2, Some("top"))>>)

LayoutConfig(sections, actions) ==
    [mode |-> "itinerary", title |-> "Paris Trip", sections |-> sections,
     actions |-> actions]

Configs ==
    {LayoutConfig(s, BaseActions) : s \in SectionLists}
      \cup {LayoutConfig(WithIds(<<CardsNode>>), a) : a \in ActionLists}

-----------------------------------------------------------------------------
(* The trip-creation page of pages/MyTrips.tsx.  A string the page trims   *)
(* is a sequence of characters.                                            *)

RECURSIVE TrimStart(_)
TrimStart(s) ==
    IF s # <<>> /\ Head(s) = " " THEN TrimStart(Tail(s)) ELSE s

RECURSIVE TrimEnd(_)
TrimEnd(s) ==
    IF s # <<>> /\ s[Len(s)] = " " THEN TrimEnd(SubSeq(s, 1, Len(s) - 1))
    ELSE s

\* String.prototype.trim
trim(s) == TrimEnd(TrimStart(s))

\* toast.error and toast.success put one more toast on the screen.
Toast(message) == toasts' = Append(toasts, message)

\* const title = activityData?.title || newActivity.title
TitleOf(activityData) ==
    IF activityData # None /\ activityData[1].title # <<>>
    THEN activityData[1].title ELSE newActivity.title

\* onChange of the destination input.
SetDestination(value) ==
    /\ location = "/create"
    /\ draftTrip' = [draftTrip EXCEPT !.destination = value]
    /\ UNCHANGED <<isAuthenticated, newActivity, now, mutations, isPending,
                   toasts, location, rendererVars, serverVars>>

\* onChange of the activity title input.
SetNewActivityTitle(value) ==
    /\ location = "/create"
    /\ newActivity' = [newActivity EXCEPT !.title = value]
    /\ UNCHANGED <<isAuthenticated, draftTrip, now, mutations, isPending, toasts,
                   location, rendererVars, serverVars>>

\* handleAddActivity, called by the form's button without an argument and
\* by a recommendation's button with the recommended activity.
handleAddActivity(activityData) ==
    /\ location = "/create"
    /\ Len(toasts) < MaxToasts
    /\ now <= MaxDraft
    /\ LET title == TitleOf(activityData)
       IN  IF trim(title) = <<>>
           THEN /\ Toast("Activity title is required")
                /\ UNCHANGED <<draftTrip, newActivity, now>>
           ELSE /\ draftTrip' = [draftTrip EXCEPT !.activities =
                                Append(@, [id |-> now, title |-> title])]
                /\ now' = now + 1
                /\ newActivity' = IF activityData = None
                                  THEN [title |-> <<>>] ELSE newActivity
                /\ Toast("Activity added!")
    /\ UNCHANGED <<isAuthenticated, mutations, isPending, location,
                   rendererVars, serverVars>>

\* trip.activities.filter((a) => a.id !== activityId)
WithoutActivity(activityId) ==
    SelectSeq(draftTrip.activities, LAMBDA a : a.id # activityId)

handleRemoveActivity(activityId) ==
    /\ location = "/create"
    /\ draftTrip' = [draftTrip EXCEPT !.activities = WithoutActivity(activityId)]
    /\ UNCHANGED <<isAuthenticated, newActivity, now, mutations, isPending,
                   toasts, location, rendererVars, serverVars>>

\* The input handleSaveTrip hands to createTripMutation.mutate.
CreateInput ==
    [name |-> draftTrip.destination,
     tripData |-> [activities |-> draftTrip.activities, notes |-> <<>>]]

\* A handleSaveTrip that does not look at isAuthenticated.
handleSaveTripSignedOut ==
    /\ location = "/create"
    /\ ~isPending
    /\ Len(mutations) < MaxSaves
    /\ mutations' = Append(mutations, CreateInput)
    /\ isPending' = TRUE
    /\ UNCHANGED <<isAuthenticated, draftTrip, newActivity, now, toasts, location,
                   rendererVars, serverVars>>

\* handleSaveTrip; the button is disabled while the mutation is in flight.
handleSaveTrip ==
    /\ location = "/create"
    /\ ~isPending
    /\ Len(toasts) < MaxToasts
    /\ Len(mutations) < MaxSaves
    /\ IF trim(draftTrip.destination) = <<>>
       THEN /\ Toast("Destination is required")
            /\ UNCHANGED <<mutations, isPending>>
       ELSE IF Len(draftTrip.activities) = 0
       THEN /\ Toast("Add at least one activity")
            /\ UNCHANGED <<mutations, isPending>>
       ELSE IF ~isAuthenticated
       THEN /\ Toast("Please log in to save your trip")
            /\ UNCHANGED <<mutations, isPending>>
       ELSE /\ mutations' = Append(mutations, CreateInput)
            /\ isPending' = TRUE
            /\ UNCHANGED toasts
    /\ UNCHANGED <<isAuthenticated, draftTrip, newActivity, now, location,
                   rendererVars, serverVars>>

\* onSuccess of createTripMutation: a toast, and the browser goes to the
\* trip's page.
CreateSucceeds ==
    /\ location = "/create"
    /\ isPending
    /\ Len(toasts) < MaxToasts
    /\ isPending' = FALSE
    /\ Toast("Trip saved successfully!")
    /\ location' = "/trips/:id"
    /\ UNCHANGED <<isAuthenticated, draftTrip, newActivity, now, mutations,
                   rendererVars, serverVars>>

\* onError of createTripMutation.
CreateFails ==
    /\ location = "/create"
    /\ isPending
    /\ Len(toasts) < MaxToasts
    /\ isPending' = FALSE
    /\ Toast("Failed to save trip")
    /\ UNCHANGED <<isAuthenticated, draftTrip, newActivity, now, mutations,
                   location, rendererVars, serverVars>>

\* useAuth reports a session: the user has logged in.
LogIn ==
    /\ ~isAuthenticated
    /\ isAuthenticated' = TRUE
    /\ UNCHANGED <<draftTrip, newActivity, now, mutations, isPending, toasts,
                   location, rendererVars, serverVars>>

\* The oldest toast leaves the screen.
ToastDismissed ==
    /\ toasts # <<>>
    /\ toasts' = Tail(toasts)
    /\ UNCHANGED <<isAuthenticated, draftTrip, newActivity, now, mutations,
                   isPending, location, rendererVars, serverVars>>

\* "", " " and a name.
Destinations == {<<>>, <<" ">>, <<"R", "i", "o">>}

\* "", " " and a title that ends in a space.
Titles == {<<>>, <<" ">>, <<"Z", "o", "o", " ">>}

\* The argument of handleAddActivity: none, or a recommendation.
ActivityData ==
    {None, Some([title |-> <<"B", "a", "r">>]), Some([title |-> <<>>])}

\* The page as useState initialises it, on another route's page.
PageAtRest ==
    /\ isAuthenticated = FALSE
    /\ draftTrip = [destination |-> <<>>, activities |-> <<>>]
    /\ newActivity = [title |-> <<>>]
    /\ now = 1
    /\ mutations = <<>>
    /\ isPending = FALSE
    /\ toasts = <<>>
    /\ location = "/"

-----------------------------------------------------------------------------
(* The server: the schema, the data-access functions of server/db.ts and   *)
(* the tRPC routes built on them.  A JSON object is a function from Keys   *)
(* to tagged values; a key the object does not have maps to Absent.        *)

\* users.id of the registered users: the column is auto-incremented, so no
\* user has the id 0.
UserIds == {1, 2}

\* ctx.user of a request: undefined, or a registered user.
Sessions == {None} \cup {Some([id |-> u]) : u \in UserIds}

Keys == {"budget", "extra"}

Absent == [t |-> "absent"]

JNull == [t |-> "null"]

JNum(n) == [t |-> "num", v |-> n]

JObj(m) == [t |-> "obj", m |-> m]

Object(budget, extra) == [budget |-> budget, extra |-> extra]

EmptyObject == Object(Absent, Absent)

\* { ...current, ...patch }: every key of the patch replaces the key of the
\* current object, whatever the two values are.
Spread(current, patch) ==
    [k \in Keys |-> IF patch[k].t # "absent" THEN patch[k] ELSE current[k]]

RECURSIVE MergePatch(_, _)
\* JSON_MERGE_PATCH(target, patch): a null member removes the key, an object
\* member is merged into the target's member, any other member replaces it.
MergePatch(target, patch) ==
    [k \in Keys |->
        IF patch[k].t = "absent" THEN target[k]
        ELSE IF patch[k].t = "null" THEN Absent
        ELSE IF patch[k].t = "obj"
        THEN JObj(MergePatch(IF target[k].t = "obj" THEN target[k].m
                             ELSE EmptyObject,
                             patch[k].m))
        ELSE patch[k]]

\* foreignKey({ columns: [table.userId], foreignColumns: [users.id] })
UserIdReferencesUsers(userId) == userId \in UserIds

\* The rows a select ... where id = ... limit 1 returns: one row or none.
RowById(table, id) ==
    LET rows == {r \in table : r.id = id}
    IN  IF rows = {} THEN None ELSE Some(CHOOSE r \in rows : TRUE)

getTripById(tripId) ==
    IF ~database THEN None ELSE RowById(trips, tripId)

\* The values createTrip inserts; the id is the next auto-increment value.
NewTrip(userId, input) ==
    [id |-> autoIncrement.trips, userId |-> userId, name |-> input.name,
     description |-> input.description,
     tripData |-> IF input.tripData = None THEN EmptyObject
                  ELSE input.tripData[1],
     status |-> "draft"]

\* updateData of updateTrip: the fields of the update that are truthy, and
\* the spread of the current tripData and the update's.
UpdateData(updates, current) ==
    [name |-> IF TruthyString(updates.name) THEN updates.name ELSE None,
     description |-> IF TruthyString(updates.description)
                     THEN updates.description ELSE None,
     status |-> IF TruthyString(updates.status) THEN updates.status ELSE None,
     tripData |-> IF updates.tripData = None THEN None
                  ELSE IF current # None
                  THEN Some(Spread(current[1].tripData, updates.tripData[1]))
                  ELSE updates.tripData]

\* db.update(trips).set(updateData) on one row.
SetTrip(row, updateData) ==
    [row EXCEPT
       !.name = IF updateData.name = None THEN @ ELSE updateData.name[1],
       !.description = IF updateData.description = None THEN @
                       ELSE updateData.description,
       !.status = IF updateData.status = None THEN @
                  ELSE updateData.status[1],
       !.tripData = IF updateData.tripData = None THEN @
                    ELSE updateData.tripData[1]]

\* The orders a select ... order by startDate asc may return rows in: rows
\* with equal start dates come in any order.
OrderedByStartDate(rows) ==
    {s \in [1..Cardinality(rows) -> rows] :
        /\ \A i, j \in DOMAIN s : i < j => /\ s[i] # s[j]
                                           /\ s[i].startDate <= s[j].startDate}

\* The results of the select of getItineraryWithActivities: the activities
\* of the itinerary by start date.
ItineraryActivities(itineraryId) ==
    OrderedByStartDate({a \in activities : a.itineraryId = itineraryId})

\* The results of the activities select of getTripWithDetails.
TripActivities(tripId) ==
    OrderedByStartDate({a \in activities : a.tripId = tripId})

\* The orders a select ... order by startDate desc may return the trips in:
\* no modelled route sets the start date of a trip, so every order is one.
OrderedByStartDateDesc(rows) ==
    {s \in [1..Cardinality(rows) -> rows] :
        \A i, j \in DOMAIN s : i < j => s[i] # s[j]}

\* .limit(limit).offset(offset) on the ordered rows.
LimitOffset(rows, limit, offset) ==
    SubSeq(rows, offset + 1,
           IF offset + limit < Len(rows) THEN offset + limit ELSE Len(rows))

\* A select of listUserTrips that leaves out where(eq(trips.userId, userId)).
TripsOfAnyUser(userId) == trips

\* The rows of .from(trips).where(eq(trips.userId, userId)).
TripsOfUser(userId) == {t \in trips : t.userId = userId}

\* The results listUserTrips may return: one page of the user's trips and
\* the number of the user's trips.
listUserTrips(userId, limit, offset) ==
    IF ~database THEN {[trips |-> <<>>, total |-> 0]}
    ELSE {[trips |-> LimitOffset(s, limit, offset),
           total |-> Cardinality(TripsOfUser(userId))] :
            s \in OrderedByStartDateDesc(TripsOfUser(userId))}

\* A check that lets every user through once the trip is found.
AuthorizedAnyTrip(trip, user) == trip # None

\* A check that also lets every user through on a trip of userId 0.
AuthorizedOrAnonymous(trip, user) ==
    trip # None /\ (trip[1].userId = user[1].id \/ trip[1].userId = 0)

\* The negation of if (!trip || trip.userId !== ctx.user.id).
Authorized(trip, user) == trip # None /\ trip[1].userId = user[1].id

Reply(op, user, input, code, body) ==
    Some([op |-> op, user |-> user, input |-> input, code |-> code,
          body |-> body])

-----------------------------------------------------------------------------
(* The routes.  A route handler runs from one await to the next; the       *)
(* handlers of trips.update and trips.delete are suspended between their   *)
(* ownership check and their write, and other requests are served in       *)
(* between.  At most one handler is suspended at a time, and a request is  *)
(* taken up once the response to the one before has left the server.  The  *)
(* inputs are the ones the zod schemas accept.                             *)

Unauthorized(op, user, input) ==
    Reply(op, user, input, "UNAUTHORIZED", None)

\* trips.create: a public procedure.
TripsCreate(user, input) ==
    /\ reply = None
    /\ autoIncrement.trips <= MaxTrips
    /\ LET userId == IF user = None THEN 0 ELSE user[1].id
           row == NewTrip(userId, input)
       IN  IF database /\ UserIdReferencesUsers(userId)
           THEN /\ trips' = trips \cup {row}
                /\ autoIncrement' = [autoIncrement EXCEPT !.trips = @ + 1]
                /\ reply' = Reply("trips.create", user, input, "OK",
                                  Some(row))
           ELSE /\ reply' = Reply("trips.create", user, input,
                                  "INTERNAL_SERVER_ERROR", None)
                /\ UNCHANGED <<trips, autoIncrement>>
    /\ UNCHANGED <<database, itineraries, activities, pending, rendererVars,
                   pageVars, updateCalls>>

\* trips.get: a public procedure.
TripsGet(user, input) ==
    /\ reply = None
    /\ LET trip == getTripById(input.tripId)
       IN  reply' = IF trip = None
                    THEN Reply("trips.get", user, input, "NOT_FOUND", None)
                    ELSE Reply("trips.get", user, input, "OK", trip)
    /\ UNCHANGED <<database, trips, itineraries, activities, autoIncrement,
                   pending, rendererVars,
                   pageVars, updateCalls>>

\* trips.getWithDetails: a public procedure.  No modelled route writes the
\* bookings table.
TripsGetWithDetails(user, input) ==
    /\ reply = None
    /\ LET trip == getTripById(input.tripId)
       IN  IF trip = None
           THEN reply' = Reply("trips.getWithDetails", user, input,
                               "NOT_FOUND", None)
           ELSE \E order \in TripActivities(input.tripId) :
                   reply' = Reply("trips.getWithDetails", user, input, "OK",
                              Some([id |-> trip[1].id,
                                    userId |-> trip[1].userId,
                                    name |-> trip[1].name,
                                    description |-> trip[1].description,
                                    tripData |-> trip[1].tripData,
                                    status |-> trip[1].status,
                                    itineraries |->
                                      {i \in itineraries :
                                          i.tripId = input.tripId},
                                    activities |-> order,
                                    bookings |-> <<>>]))
    /\ UNCHANGED <<database, trips, itineraries, activities, autoIncrement,
                   pending, rendererVars,
                   pageVars, updateCalls>>

\* trips.list: a protected procedure.
TripsList(user, input) ==
    /\ reply = None
    /\ IF user = None
       THEN reply' = Unauthorized("trips.list", user, input)
       ELSE \E listed \in listUserTrips(user[1].id, input.limit,
                                        input.offset) :
               reply' = Reply("trips.list", user, input, "OK",
                          Some([trips |-> listed.trips,
                                total |-> listed.total,
                                hasMore |-> input.offset + input.limit
                                              < listed.total]))
    /\ UNCHANGED <<database, trips, itineraries, activities, autoIncrement,
                   pending, rendererVars,
                   pageVars, updateCalls>>

\* The handler of a protected trip route after its ownership check: the
\* response that ends it, or the data-access function it goes on to.
CheckOwner(op, next, user, input) ==
    IF user = None
    THEN [reply |-> Unauthorized(op, user, input), pending |-> None]
    ELSE IF ~Authorized(getTripById(input.tripId), user)
    THEN [reply |-> Reply(op, user, input, "FORBIDDEN", None),
          pending |-> None]
    ELSE [reply |-> None,
          pending |-> Some([op |-> op, user |-> user, input |-> input,
                            at |-> next, updateData |-> None])]

\* trips.update up to the call of db.updateTrip.
TripsUpdate(user, input) ==
    /\ reply = None
    /\ pending = None
    /\ LET checked == CheckOwner("trips.update", "updateTrip", user, input)
       IN  /\ reply' = checked.reply
           /\ pending' = checked.pending
    /\ UNCHANGED <<database, trips, itineraries, activities, autoIncrement,
                   rendererVars,
                   pageVars, updateCalls>>

\* updateTrip up to db.update: updateData is built from the update and the
\* current row.
UpdateTripRead ==
    /\ reply = None
    /\ pending # None
    /\ pending[1].at = "updateTrip"
    /\ pending' = Some([pending[1] EXCEPT
                          !.at = "set",
                          !.updateData =
                             Some(UpdateData(pending[1].input,
                                    getTripById(pending[1].input.tripId)))])
    /\ UNCHANGED <<database, trips, itineraries, activities, autoIncrement,
                   reply, rendererVars,
                   pageVars, updateCalls>>

\* db.update(trips).set(updateData).where(eq(trips.id, tripId)), and the row
\* read back for the response.
UpdateTripWrite ==
    /\ reply = None
    /\ pending # None
    /\ pending[1].at = "set"
    /\ LET tripId == pending[1].input.tripId
           after == {IF t.id = tripId
                     THEN SetTrip(t, pending[1].updateData[1]) ELSE t :
                       t \in trips}
       IN  /\ trips' = after
           /\ reply' = Reply("trips.update", pending[1].user,
                             pending[1].input, "OK", RowById(after, tripId))
    /\ pending' = None
    /\ UNCHANGED <<database, itineraries, activities, autoIncrement,
                   rendererVars,
                   pageVars, updateCalls>>

\* trips.delete up to the call of db.deleteTrip.
TripsDelete(user, input) ==
    /\ reply = None
    /\ pending = None
    /\ LET checked == CheckOwner("trips.delete", "deleteTrip", user, input)
       IN  /\ reply' = checked.reply
           /\ pending' = checked.pending
    /\ UNCHANGED <<database, trips, itineraries, activities, autoIncrement,
                   rendererVars,
                   pageVars, updateCalls>>

\* A deleteTrip that reports success and deletes no row.
DeleteNoTrip ==
    /\ reply = None
    /\ pending # None
    /\ pending[1].at = "deleteTrip"
    /\ reply' = Reply("trips.delete", pending[1].user, pending[1].input,
                      "OK", Some([success |-> TRUE]))
    /\ pending' = None
    /\ UNCHANGED <<database, trips, itineraries, activities, autoIncrement,
                   rendererVars,
                   pageVars, updateCalls>>

\* db.delete(trips).where(eq(trips.id, tripId)); the foreign keys of
\* itineraries and activities delete their rows of the trip with it.
DeleteTripWrite ==
    /\ reply = None
    /\ pending # None
    /\ pending[1].at = "deleteTrip"
    /\ LET tripId == pending[1].input.tripId
       IN  /\ trips' = {t \in trips : t.id # tripId}
           /\ itineraries' = {i \in itineraries : i.tripId # tripId}
           /\ activities' =
                {a \in activities :
                    /\ a.tripId # tripId
                    /\ \E i \in itineraries :
                          i.id = a.itineraryId /\ i.tripId # tripId}
    /\ reply' = Reply("trips.delete", pending[1].user, pending[1].input,
                      "OK", Some([success |-> TRUE]))
    /\ pending' = None
    /\ UNCHANGED <<database, autoIncrement, rendererVars,
                   pageVars, updateCalls>>

\* itineraries.create: a protected procedure; the check and the insert are
\* taken in one step.
ItinerariesCreate(user, input) ==
    /\ reply = None
    /\ autoIncrement.itineraries <= MaxItineraries
    /\ IF user = None
       THEN /\ reply' = Unauthorized("itineraries.create", user, input)
            /\ UNCHANGED <<itineraries, autoIncrement>>
       ELSE IF ~Authorized(getTripById(input.tripId), user)
       THEN /\ reply' = Reply("itineraries.create", user, input,
                              "FORBIDDEN", None)
            /\ UNCHANGED <<itineraries, autoIncrement>>
       ELSE LET row == [id |-> autoIncrement.itineraries,
                        tripId |-> input.tripId, userId |-> user[1].id]
            IN  /\ itineraries' = itineraries \cup {row}
                /\ autoIncrement' =
                     [autoIncrement EXCEPT !.itineraries = @ + 1]
                /\ reply' = Reply("itineraries.create", user, input, "OK",
                                  Some(row))
    /\ UNCHANGED <<database, trips, activities, pending, rendererVars,
                   pageVars, updateCalls>>

\* itineraries.addActivity: a protected procedure; the check and the insert
\* are taken in one step.  The insert fails when no itinerary has the id.
ItinerariesAddActivity(user, input) ==
    /\ reply = None
    /\ autoIncrement.activities <= MaxActivities
    /\ IF user = None
       THEN /\ reply' = Unauthorized("itineraries.addActivity", user, input)
            /\ UNCHANGED <<activities, autoIncrement>>
       ELSE IF ~Authorized(getTripById(input.tripId), user)
       THEN /\ reply' = Reply("itineraries.addActivity", user, input,
                              "FORBIDDEN", None)
            /\ UNCHANGED <<activities, autoIncrement>>
       ELSE IF RowById(itineraries, input.itineraryId) = None
       THEN /\ reply' = Reply("itineraries.addActivity", user, input,
                              "INTERNAL_SERVER_ERROR", None)
            /\ UNCHANGED <<activities, autoIncrement>>
       ELSE LET row == [id |-> autoIncrement.activities,
                        itineraryId |-> input.itineraryId,
                        tripId |-> input.tripId,
                        startDate |-> input.startDate]
            IN  /\ activities' = activities \cup {row}
                /\ autoIncrement' =
                     [autoIncrement EXCEPT !.activities = @ + 1]
                /\ reply' = Reply("itineraries.addActivity", user, input,
                                  "OK", Some(row))
    /\ UNCHANGED <<database, trips, itineraries, pending, rendererVars,
                   pageVars, updateCalls>>

RECURSIVE Lookup(_, _)
\* activityIds.map((id) => activityMap.get(id)).filter((a) => a !== undefined)
Lookup(activityIds, rows) ==
    IF activityIds = <<>> THEN <<>>
    ELSE LET row == RowById(rows, Head(activityIds))
         IN  row \o Lookup(Tail(activityIds), rows)

\* A reorderActivities whose select has no where clause.
reorderActivitiesOfAll(itineraryId, activityIds) ==
    IF ~database THEN <<>> ELSE Lookup(activityIds, activities)

\* reorderActivities of db.ts: the rows of the itinerary in the order of
\* activityIds.
reorderActivities(itineraryId, activityIds) ==
    IF ~database THEN <<>>
    ELSE Lookup(activityIds,
                {a \in activities : a.itineraryId = itineraryId})

\* itineraries.reorderActivities: a protected procedure.
ItinerariesReorderActivities(user, input) ==
    /\ reply = None
    /\ reply' =
         IF user = None
         THEN Unauthorized("itineraries.reorderActivities", user, input)
         ELSE Reply("itineraries.reorderActivities", user, input, "OK",
                    Some([success |-> TRUE,
                          activities |->
                            reorderActivities(input.itineraryId,
                                              input.activityIds)]))
    /\ UNCHANGED <<database, trips, itineraries, activities, autoIncrement,
                   pending, rendererVars,
                   pageVars, updateCalls>>

\* itineraries.getWithActivities: a public procedure.
ItinerariesGetWithActivities(user, input) ==
    /\ reply = None
    /\ LET itinerary == IF ~database THEN None
                        ELSE RowById(itineraries, input.itineraryId)
       IN  IF itinerary = None
           THEN reply' = Reply("itineraries.getWithActivities", user, input,
                               "NOT_FOUND", None)
           ELSE \E order \in ItineraryActivities(input.itineraryId) :
                   reply' = Reply("itineraries.getWithActivities", user,
                              input, "OK",
                              Some([id |-> itinerary[1].id,
                                    tripId |-> itinerary[1].tripId,
                                    userId |-> itinerary[1].userId,
                                    activities |-> order]))
    /\ UNCHANGED <<database, trips, itineraries, activities, autoIncrement,
                   pending, rendererVars,
                   pageVars, updateCalls>>

\* The response leaves the server.
Deliver ==
    /\ reply # None
    /\ reply' = None
    /\ UNCHANGED <<database, trips, itineraries, activities, autoIncrement,
                   pending, rendererVars,
                   pageVars, updateCalls>>

-----------------------------------------------------------------------------
(* alerts.getEmergencies: one GET of the GDACS event list, and the alerts  *)
(* built from the body.  A degree is a whole number; a JSON string stands  *)
(* for the number parseFloat reads from it.                                *)

NaN == [t |-> "nan"]

JStr(s) == [t |-> "str", s |-> s]

JArr(a) == [t |-> "arr", a |-> a]

\* response.json() rejects: the body is not JSON.
NotJson == [t |-> "invalid"]

\* The strings parseFloat reads a number from.
Numerals == {<<"48", 48>>, <<"2", 2>>, <<"35", 35>>, <<"139", 139>>}

\* parseFloat(x): a number is read as itself, a string as the number it
\* spells, and anything else (undefined, null, other text) as NaN.
parseFloat(x) ==
    IF x.t = "num" THEN x
    ELSE IF x.t = "str" /\ \E n \in Numerals : n[1] = x.s
    THEN JNum((CHOOSE n \in Numerals : n[1] = x.s)[2])
    ELSE NaN

\* new Date(x): the date the string names, or Invalid Date for undefined.
NewDate(x) == IF x = None THEN [date |-> "Invalid Date"] ELSE [date |-> x[1]]

\* .slice(0, 20)
SliceEnd == 20

\* The object the map callback builds from one event.
Alert(event) ==
    [id |-> event.eventid,
     type |-> event.eventtype,
     severity |-> event.severity,
     location |-> event.eventname,
     description |-> IF TruthyString(event.description)
                     THEN event.description ELSE event.eventname,
     timestamp |-> NewDate(event.eventdate),
     coordinates |-> [latitude |-> parseFloat(event.lat),
                      longitude |-> parseFloat(event.lon)],
     externalLink |-> event.url]

\* The result of the catch block.
NoAlerts == [alerts |-> <<>>, totalCount |-> 0]

\* The handler's result without .slice(0, 20).
AllAlerts(events) ==
    IF \E i \in DOMAIN events : events[i].t # "obj" THEN NoAlerts
    ELSE [alerts |-> [i \in DOMAIN events |-> Alert(events[i].m)],
          totalCount |-> Len(events)]

\* data.events.slice(0, 20).map(...): reading a member of an element that
\* is null throws, and so does .slice or .map on a value that has none.
FirstAlerts(events) ==
    LET first == SubSeq(events, 1,
                        IF Len(events) < SliceEnd THEN Len(events)
                        ELSE SliceEnd)
    IN  IF \E i \in DOMAIN first : first[i].t # "obj" THEN NoAlerts
        ELSE [alerts |-> [i \in DOMAIN first |-> Alert(first[i].m)],
              totalCount |-> Len(first)]

\* The value the handler returns for a settled fetch: every throw inside
\* the try block ends in the catch block.
getEmergencies(response) ==
    IF response.kind = "rejected" THEN NoAlerts
    ELSE IF ~response.ok THEN NoAlerts
    ELSE IF response.json.t # "obj" THEN NoAlerts
    ELSE IF response.json.m.events.t # "arr" THEN NoAlerts
    ELSE FirstAlerts(response.json.m.events.a)

\* alerts.getEmergencies up to await fetch(...): a public procedure.
AlertsGetEmergencies(user, input) ==
    /\ reply = None
    /\ pending = None
    /\ pending' = Some([op |-> "alerts.getEmergencies", user |-> user,
                        input |-> input, at |-> "fetch", response |-> None])
    /\ UNCHANGED <<database, trips, itineraries, activities, autoIncrement,
                   reply, rendererVars,
                   pageVars, updateCalls>>

\* The fetch settles: it rejects, or resolves to a response.
FetchSettles(response) ==
    /\ reply = None
    /\ pending # None
    /\ pending[1].at = "fetch"
    /\ pending' = Some([pending[1] EXCEPT !.at = "settled",
                                          !.response = Some(response)])
    /\ UNCHANGED <<database, trips, itineraries, activities, autoIncrement,
                   reply, rendererVars,
                   pageVars, updateCalls>>

\* The rest of the handler: the status check, response.json(), the alerts
\* and the return, or the catch block.
EmergenciesReturn ==
    /\ reply = None
    /\ pending # None
    /\ pending[1].at = "settled"
    /\ reply' = Reply("alerts.getEmergencies", pending[1].user,
                      pending[1].input, "OK",
                      Some(getEmergencies(pending[1].response[1])))
    /\ pending' = None
    /\ UNCHANGED <<database, trips, itineraries, activities, autoIncrement,
                   rendererVars,
                   pageVars, updateCalls>>

-----------------------------------------------------------------------------
(* The requests the routes are called with, and the server's state machine. *)

ParisTrip ==
    Object(JNum(1), JObj(Object(JNum(1), JNum(2))))

\* The input of trips.create: tripData is optional.
CreateInputs ==
    {[name |-> "Paris", description |-> None, tripData |-> d] :
       d \in {None, Some(ParisTrip)}}

TripIds == 1..MaxTrips

\* The tripData of an update: a null member and a nested object.
Patches == {Object(JNull, JObj(Object(JNum(2), Absent)))}

\* The input of trips.update: only tripData, only the columns, or an empty
\* name with an empty tripData.
UpdateInputs ==
    {[tripId |-> id, name |-> None, description |-> None, status |-> None,
      tripData |-> Some(p)] : id \in TripIds, p \in Patches}
      \cup {[tripId |-> id, name |-> Some("Rome"),
             description |-> Some("In spring"), status |-> Some("planned"),
             tripData |-> None] : id \in TripIds}
      \cup {[tripId |-> id, name |-> Some(""), description |-> None,
             status |-> None, tripData |-> Some(EmptyObject)] :
              id \in TripIds}

TripIdInputs == {[tripId |-> id] : id \in TripIds}

\* The input of trips.list: limit is at least 1 and offset at least 0.
ListInputs == {[limit |-> l, offset |-> o] : l \in {1, 2}, o \in {0, 1}}

ItineraryIdInputs == {[itineraryId |-> id] : id \in 1..MaxItineraries}

StartDates == {1, 2}

ActivityInputs ==
    {[itineraryId |-> i, tripId |-> t, startDate |-> d] :
       i \in 1..MaxItineraries, t \in TripIds, d \in StartDates}

\* The activity ids of a reorder request: the first n ids in some order.
ActivityIdLists ==
    {s \in SeqsUpTo(1..MaxActivities, MaxActivities) :
        /\ \A i, j \in DOMAIN s : i # j => s[i] # s[j]
        /\ \A i \in DOMAIN s : s[i] <= Len(s)}

ReorderInputs ==
    {[itineraryId |-> i, activityIds |-> l] :
       i \in 1..MaxItineraries, l \in ActivityIdLists}

\* The server starts on an empty database, reachable or not.
ServerInit ==
    /\ database \in BOOLEAN
    /\ trips = {}
    /\ itineraries = {}
    /\ activities = {}
    /\ autoIncrement = [trips |-> 1, itineraries |-> 1, activities |-> 1]
    /\ pending = None
    /\ reply = None
    /\ updateCalls = <<>>

\* The client renders a layout it holds; no request is in progress.
ServerAtRest ==
    /\ database = FALSE
    /\ trips = {}
    /\ itineraries = {}
    /\ activities = {}
    /\ autoIncrement = [trips |-> 1, itineraries |-> 1, activities |-> 1]
    /\ pending = None
    /\ reply = None
    /\ updateCalls = <<>>

\* The renderer before its first pass, on a layout without sections.
RendererAtRest ==
    /\ config = LayoutConfig(<<>>, None)
    /\ loading = None
    /\ error = None
    /\ onAction = None
    /\ data = None
    /\ pc = "idle"
    /\ output = <<>>
    /\ previous = None
    /\ triggers = <<>>
    /\ calls = <<>>

\* The trips routes, from an empty database.
InitTrips == ServerInit /\ RendererAtRest /\ PageAtRest

NextTrips ==
    \/ \E user \in Sessions :
          \/ \E input \in CreateInputs : TripsCreate(user, input)
          \/ \E input \in TripIdInputs :
                \/ TripsGet(user, input)
                \/ TripsGetWithDetails(user, input)
                \/ TripsDelete(user, input)
          \/ \E input \in UpdateInputs : TripsUpdate(user, input)
          \/ \E input \in ListInputs : TripsList(user, input)
    \/ UpdateTripRead
    \/ UpdateTripWrite
    \/ DeleteTripWrite
    \/ Deliver

SpecTrips == InitTrips /\ [][NextTrips]_vars

\* The trips table after trips.create has been called MaxTrips times, by
\* the registered users in turn.
CreatedTrips ==
    {[id |-> id, userId |-> IF id % 2 = 1 THEN 1 ELSE 2, name |-> "Paris",
      description |-> None, tripData |-> ParisTrip, status |-> "draft"] :
       id \in TripIds}

\* The itineraries routes, from a database that holds trips and nothing
\* else.
InitItineraries ==
    /\ database \in BOOLEAN
    /\ trips = CreatedTrips
    /\ itineraries = {}
    /\ activities = {}
    /\ autoIncrement = [trips |-> MaxTrips + 1, itineraries |-> 1,
                        activities |-> 1]
    /\ pending = None
    /\ reply = None
    /\ updateCalls = <<>>
    /\ RendererAtRest
    /\ PageAtRest

NextItineraries ==
    \/ \E user \in Sessions :
          \/ \E input \in TripIdInputs :
                \/ ItinerariesCreate(user, input)
                \/ TripsGetWithDetails(user, input)
          \/ \E input \in ActivityInputs : ItinerariesAddActivity(user, input)
          \/ \E input \in ReorderInputs :
                ItinerariesReorderActivities(user, input)
          \/ \E input \in ItineraryIdInputs :
                ItinerariesGetWithActivities(user, input)
    \/ Deliver

SpecItineraries == InitItineraries /\ [][NextItineraries]_vars

\* Two itineraries, one for each of the first two trips, made by the
\* trip's owner.
StoredItineraries ==
    {[id |-> i, tripId |-> i, userId |-> IF i % 2 = 1 THEN 1 ELSE 2] :
       i \in {1, 2}}

\* The activities tables that hold activities 1..n, each in one of the two
\* itineraries, later ones starting earlier.
StoredActivities ==
    UNION {{{[id |-> id, itineraryId |-> of[id], tripId |-> of[id],
              startDate |-> MaxActivities + 1 - id] : id \in 1..n} :
              of \in [1..n -> {1, 2}]} : n \in 0..MaxActivities}

\* The activity ids of a request: any ids, stored or not, in any order and
\* with repetitions.
AnyActivityIdLists ==
    SeqsUpTo(1..(MaxActivities + 1), MaxActivities + 1)

\* reorderActivities applied to the activities of stored itineraries.
InitReorder ==
    /\ database \in BOOLEAN
    /\ trips = IF database THEN CreatedTrips ELSE {}
    /\ itineraries = IF database THEN StoredItineraries ELSE {}
    /\ activities \in StoredActivities
    /\ ~database => activities = {}
    /\ autoIncrement = [trips |-> MaxTrips + 1, itineraries |-> 3,
                        activities |-> Cardinality(activities) + 1]
    /\ pending = None
    /\ reply = None
    /\ updateCalls = <<>>
    /\ RendererAtRest
    /\ PageAtRest

NextReorder ==
    \/ \E user \in Sessions, itineraryId \in {1, 2},
          activityIds \in AnyActivityIdLists :
          ItinerariesReorderActivities(user,
              [itineraryId |-> itineraryId, activityIds |-> activityIds])
    \/ Deliver

SpecReorder == InitReorder /\ [][NextReorder]_vars

\* Call c of updateTrip up to db.update: on a tripData update the current
\* row is read and updateData is built from it.
updateTripCurrent(c) ==
    /\ c \in DOMAIN updateCalls
    /\ updateCalls[c].at = "getTripById"
    /\ updateCalls' =
         [updateCalls EXCEPT
            ![c].at = "set",
            ![c].updateData =
               Some(UpdateData(updateCalls[c].updates,
                               getTripById(updateCalls[c].tripId)))]
    /\ UNCHANGED <<database, trips, itineraries, activities, autoIncrement,
                   pending, reply, rendererVars, pageVars>>

\* Call c of updateTrip from db.update on.
updateTripSet(c) ==
    /\ c \in DOMAIN updateCalls
    /\ updateCalls[c].at = "set"
    /\ trips' = {IF t.id = updateCalls[c].tripId
                 THEN SetTrip(t, updateCalls[c].updateData[1]) ELSE t :
                   t \in trips}
    /\ updateCalls' = [updateCalls EXCEPT ![c].at = "returned"]
    /\ UNCHANGED <<database, itineraries, activities, autoIncrement, pending,
                   reply, rendererVars, pageVars>>

\* The tripData a stored trip may hold.
StoredData == {EmptyObject, ParisTrip, Object(JNum(1), Absent)}

\* Updates of tripData that set the budget and nothing else.
BudgetPatches == {Object(JNum(n), Absent) : n \in {5, 6, 7}}

\* Updates of tripData that set extra and nothing else.
ExtraPatches ==
    {Object(Absent, JNum(n)) : n \in {8, 9}}
      \cup {Object(Absent, JObj(Object(JNum(2), Absent)))}

\* A call of updateTrip on trip 1 that has not yet read anything.
UpdateCall(patch) ==
    [tripId |-> 1,
     updates |-> [name |-> None, description |-> None, status |-> None,
                  tripData |-> Some(patch)],
     at |-> "getTripById", updateData |-> None]

\* Two calls of updateTrip on one stored trip, one with a budget and one
\* with extra, started before either has read the trip.
InitUpdates ==
    /\ database = TRUE
    /\ \E stored \in StoredData :
          trips = {[id |-> 1, userId |-> 1, name |-> "Paris",
                    description |-> None, tripData |-> stored,
                    status |-> "draft"]}
    /\ itineraries = {}
    /\ activities = {}
    /\ autoIncrement = [trips |-> 2, itineraries |-> 1, activities |-> 1]
    /\ pending = None
    /\ reply = None
    /\ \E budget \in BudgetPatches, extra \in ExtraPatches :
          updateCalls = <<UpdateCall(budget), UpdateCall(extra)>>
    /\ RendererAtRest
    /\ PageAtRest

NextUpdates ==
    \E c \in {1, 2} : updateTripCurrent(c) \/ updateTripSet(c)

SpecUpdates == InitUpdates /\ [][NextUpdates]_vars

\* The row createTrip(0, input) inserts for a caller without a session,
\* in a database that does not enforce the foreign key of trips.userId.
AnonymousTrip ==
    [id |-> 1, userId |-> 0, name |-> "Paris", description |-> None,
     tripData |-> ParisTrip, status |-> "draft"]

\* The trips routes on a database that holds a trip of userId 0 and a trip
\* of user 1.
InitAnonymousTrip ==
    /\ database = TRUE
    /\ trips = {AnonymousTrip,
                [AnonymousTrip EXCEPT !.id = 2, !.userId = 1]}
    /\ itineraries = {}
    /\ activities = {}
    /\ autoIncrement = [trips |-> 3, itineraries |-> 1, activities |-> 1]
    /\ pending = None
    /\ reply = None
    /\ updateCalls = <<>>
    /\ RendererAtRest
    /\ PageAtRest

NextAnonymousTrip ==
    \/ \E user \in Sessions :
          \/ \E input \in TripIdInputs :
                \/ TripsGet(user, input)
                \/ TripsDelete(user, input)
          \/ \E input \in UpdateInputs : TripsUpdate(user, input)
    \/ UpdateTripRead
    \/ UpdateTripWrite
    \/ DeleteTripWrite
    \/ Deliver

SpecAnonymousTrip == InitAnonymousTrip /\ [][NextAnonymousTrip]_vars

\* Paris and Tokyo, in whole degrees.
Places == <<[latitude |-> 48, longitude |-> 2],
            [latitude |-> 35, longitude |-> 139]>>

\* The input of alerts.getEmergencies: radiusKm defaults to 100.
EmergencyInputs ==
    {[latitude |-> Places[1].latitude, longitude |-> Places[1].longitude,
      radiusKm |-> r] : r \in {100, 500}}
      \cup {[latitude |-> Places[2].latitude,
              longitude |-> Places[2].longitude, radiusKm |-> 100]}

\* The i-th event of the list: the events alternate between the two places,
\* every third has no description, and the odd ones spell their
\* coordinates as strings.
Event(i) ==
    LET place == Places[(i % 2) + 1]
    IN  [eventid |-> Some(i), eventtype |-> Some("EQ"),
         severity |-> Some("red"), eventname |-> Some("Earthquake"),
         description |-> IF i % 3 = 0 THEN None ELSE Some("Magnitude 6"),
         eventdate |-> Some("2026-01-05T00:00:00"),
         lat |-> IF i % 2 = 1 THEN JStr(IF place.latitude = 48 THEN "48"
                                      ELSE "35")
                 ELSE JNum(place.latitude),
         lon |-> IF i % 2 = 1 THEN JStr(IF place.longitude = 2 THEN "2"
                                      ELSE "139")
                 ELSE JNum(place.longitude),
         url |-> Some("https://www.gdacs.org/report")]

\* An event object without a member.
BareEvent ==
    [eventid |-> None, eventtype |-> None, severity |-> None,
     eventname |-> None, description |-> None, eventdate |-> None,
     lat |-> Absent, lon |-> Absent, url |-> None]

Events(n) == [i \in 1..n |-> JObj(Event(i))]

\* The events arrays of a body: up to MaxEvents events, a null element, an
\* empty object, and a null element as the last of MaxEvents.
EventLists ==
    {Events(n) : n \in 0..MaxEvents}
      \cup {<<JNull>>, <<JObj(BareEvent)>>,
            [Events(MaxEvents) EXCEPT ![MaxEvents] = JNull]}

\* What the fetch settles to: a rejection, a response with a non-OK status,
\* or an OK response whose body is not JSON, is null, has no events, has
\* events that are not an array, or has an events array.
Responses ==
    {[kind |-> "rejected"], [kind |-> "resolved", ok |-> FALSE,
                              json |-> NotJson]}
      \cup {[kind |-> "resolved", ok |-> TRUE, json |-> j] :
              j \in {NotJson, JNull, JObj([events |-> Absent]),
                     JObj([events |-> JStr("none")])}
                    \cup {JObj([events |-> JArr(l)]) : l \in EventLists}}

\* The alerts route.
InitAlerts == ServerInit /\ RendererAtRest /\ PageAtRest

NextAlerts ==
    \/ \E user \in Sessions, input \in EmergencyInputs :
          AlertsGetEmergencies(user, input)
    \/ \E response \in Responses : FetchSettles(response)
    \/ EmergenciesReturn
    \/ Deliver

SpecAlerts == InitAlerts /\ [][NextAlerts]_vars

\* The trip-creation page is opened, by a visitor or by a user.
InitPage ==
    /\ isAuthenticated \in BOOLEAN
    /\ draftTrip = [destination |-> <<>>, activities |-> <<>>]
    /\ newActivity = [title |-> <<>>]
    /\ now = 1
    /\ mutations = <<>>
    /\ isPending = FALSE
    /\ toasts = <<>>
    /\ location = "/create"
    /\ RendererAtRest
    /\ ServerAtRest

NextPage ==
    \/ \E value \in Destinations : SetDestination(value)
    \/ \E value \in Titles : SetNewActivityTitle(value)
    \/ \E activityData \in ActivityData : handleAddActivity(activityData)
    \/ \E activityId \in 1..MaxDraft : handleRemoveActivity(activityId)
    \/ handleSaveTrip
    \/ CreateSucceeds
    \/ CreateFails
    \/ LogIn
    \/ ToastDismissed

SpecPage == InitPage /\ [][NextPage]_vars

-----------------------------------------------------------------------------
(* The state machine: one render pass, then the user's triggers.           *)

Init ==
    /\ config \in Configs
    /\ loading \in {None, Some(FALSE), Some(TRUE)}
    /\ error \in {None, Some(""), Some("Failed to load trip")}
    /\ onAction \in {None, Some("handleAction")}
    /\ data \in {None, Some([weather |-> "sunny"])}
    /\ pc = "idle"
    /\ output = <<>>
    /\ previous = None
    /\ triggers = <<>>
    /\ calls = <<>>
    /\ ServerAtRest
    /\ PageAtRest

Throws(els) == \E i \in DOMAIN els : els[i].el = "throw"

\* A render pass that orders config.actions for the bar in place, last
\* action first, instead of filtering a copy.
RenderOrderingInPlace ==
    /\ pc = "idle"
    /\ LET els == LayoutRenderer(config, onAction, data, loading, error)
       IN  IF Throws(els)
           THEN /\ pc' = "crashed"
                /\ output' = <<>>
           ELSE /\ pc' = "rendered"
                /\ output' = els
    /\ config' =
          IF config.actions = None THEN config
          ELSE LET actions == config.actions[1]
               IN  [config EXCEPT
                      !.actions = Some([k \in DOMAIN actions |->
                                          actions[Len(actions) + 1 - k]])]
    /\ UNCHANGED <<loading, error, onAction, data, previous, triggers, calls,
                   serverVars,
                   pageVars>>

\* React renders <LayoutRenderer .../>; an exception thrown while rendering
\* unmounts the tree.
Render ==
    /\ pc = "idle"
    /\ LET els == LayoutRenderer(config, onAction, data, loading, error)
       IN  IF Throws(els)
           THEN /\ pc' = "crashed"
                /\ output' = <<>>
           ELSE /\ pc' = "rendered"
                /\ output' = els
    /\ UNCHANGED <<config, loading, error, onAction, data, previous,
                   triggers, calls, serverVars,
                   pageVars>>

\* React renders the mounted component again with the same props, before
\* the user has triggered anything.
Rerender ==
    /\ pc = "rendered"
    /\ triggers = <<>>
    /\ previous' = Some(output)
    /\ LET els == LayoutRenderer(config, onAction, data, loading, error)
       IN  IF Throws(els)
           THEN /\ pc' = "crashed"
                /\ output' = <<>>
           ELSE /\ pc' = "rendered"
                /\ output' = els
    /\ UNCHANGED <<config, loading, error, onAction, data, triggers, calls,
                   serverVars,
                   pageVars>>

\* The handler called with the action id alone.
OnClickWithoutPayload(button) ==
    IF button.onAction = None
    THEN <<>>
    ELSE <<[handler |-> button.onAction[1], actionId |-> button.actionId,
            payload |-> None]>>

\* () => onAction?.(action.id, action.payload)
OnClick(button) ==
    IF button.onAction = None
    THEN <<>>
    ELSE <<[handler |-> button.onAction[1], actionId |-> button.actionId,
            payload |-> button.payload]>>

\* The user triggers the button at position i of the rendered output.
Click(i) ==
    /\ pc = "rendered"
    /\ previous = None
    /\ Len(triggers) < MaxTriggers
    /\ output[i].el = "button"
    /\ triggers' = Append(triggers, i)
    /\ calls' = calls \o OnClick(output[i])
    /\ UNCHANGED <<config, loading, error, onAction, data, pc, output,
                   previous, serverVars,
                   pageVars>>

Next ==
    \/ Render
    \/ Rerender
    \/ \E i \in DOMAIN output : Click(i)

Spec == Init /\ [][Next]_vars

-----------------------------------------------------------------------------
(* Reading the configuration and the rendered output.                      *)

RECURSIVE SectionAt(_, _)
\* The section of a section list at a path.
SectionAt(sections, path) ==
    IF Len(path) = 1
    THEN sections[path[1]]
    ELSE SectionAt(sections[path[1]].children[1], Tail(path))

ChildCount(section) ==
    IF section.children = None THEN 0 ELSE Len(section.children[1])

RECURSIVE PathsUnder(_, _)
\* The paths of all sections of a section list, at every depth.
PathsUnder(sections, prefix) ==
    UNION {{prefix \o <<i>>}
             \cup (IF ChildCount(sections[i]) = 0 THEN {}
                   ELSE PathsUnder(sections[i].children[1], prefix \o <<i>>)) :
           i \in DOMAIN sections}

ConfigPaths == PathsUnder(config.sections, <<>>)

\* The positions in the output of the elements of a kind made for a path.
At(kind, path) ==
    {i \in DOMAIN output : output[i].el = kind /\ output[i].path = path}

Kinds(kind) == {i \in DOMAIN output : output[i].el = kind}

Bodies(path) == At("sub", path) \cup At("placeholder", path)

\* Neither the loading state nor the error state takes the render pass over.
Composed ==
    /\ pc = "rendered"
    /\ loading # Some(TRUE)
    /\ error \in {None, Some("")}

-----------------------------------------------------------------------------
(* Claims.                                                                 *)

\* C1: with loading = true the render pass yields the loading indicator and
\* nothing else -- no section, no action bar, no error state -- for every
\* config and whether or not error is set.
C1_LoadingTakesOver ==
    (pc # "idle" /\ loading = Some(TRUE)) =>
        /\ pc = "rendered"
        /\ Len(output) = 1
        /\ output[1].el = "spinner"

C1_Witness ==
    /\ pc = "rendered"
    /\ loading = Some(TRUE)
    /\ error = Some("Failed to load trip")
    /\ Len(config.sections) > 1
    /\ config.actions # None

\* C2 as stated: with loading = false and error any string X, the render
\* pass yields only the error state showing X.
C2_ErrorAnyString ==
    (pc # "idle" /\ loading = Some(FALSE) /\ error # None) =>
        /\ pc = "rendered"
        /\ Len(output) = 1
        /\ output[1].el = "error"
        /\ output[1].text = error[1]

\* C2 amended: with loading = false and error a non-empty string X, the
\* render pass yields only the error state showing X -- no section and no
\* action bar.
C2_ErrorNonEmptyString ==
    (pc # "idle" /\ loading = Some(FALSE) /\ error # None /\ error[1] # "") =>
        /\ pc = "rendered"
        /\ Len(output) = 1
        /\ output[1].el = "error"
        /\ output[1].text = error[1]

C2_Witness ==
    /\ pc = "rendered"
    /\ loading = Some(FALSE)
    /\ error = Some("Failed to load trip")
    /\ Len(config.sections) > 1
    /\ config.actions # None

\* C3 as stated: every rendered section whose type is a value of SectionType
\* gets exactly one section component and never the unknown-type placeholder.
C3_DispatchTotal ==
    Composed =>
        \A p \in ConfigPaths :
            SectionAt(config.sections, p).type \in SectionType =>
                /\ Cardinality(At("sub", p)) = 1
                /\ At("placeholder", p) = {}

\* C4: a section whose type is a string outside SectionType gets the
\* placeholder, whose text holds that type string, and no section component;
\* the render pass does not fail, and every section of the config -- the
\* section's children and siblings included -- is rendered.
C4_UnknownTypeFallback ==
    /\ pc # "crashed"
    /\ Composed =>
         \A p \in ConfigPaths :
            LET section == SectionAt(config.sections, p)
            IN  /\ Cardinality(At("section", p)) = 1
                /\ section.type \notin SectionType =>
                     /\ Cardinality(At("placeholder", p)) = 1
                     /\ At("sub", p) = {}
                     /\ \A i \in At("placeholder", p) :
                           /\ Len(output[i].text) = 2
                           /\ output[i].text[2] = section.type

C4_Witness ==
    /\ Composed
    /\ \E p \in ConfigPaths :
          /\ Len(p) = 1
          /\ SectionAt(config.sections, p).type = "widget"
          /\ ChildCount(SectionAt(config.sections, p)) > 0
          /\ Len(config.sections) > 1
          /\ At("placeholder", p) # {}
          /\ At("section", p \o <<1>>) # {}

TopLevelSections ==
    SelectSeq(output, LAMBDA e : e.el = "section" /\ Len(e.path) = 1)

\* C5: when neither loading nor error takes over, the top-level sections of
\* the output are the entries of config.sections, each once and in array
\* order, whatever their types.
C5_SectionOrder ==
    Composed =>
        /\ Len(TopLevelSections) = Len(config.sections)
        /\ \A i \in DOMAIN config.sections :
              /\ TopLevelSections[i].path = <<i>>
              /\ TopLevelSections[i].id = config.sections[i].id

C5_Witness ==
    /\ Composed
    /\ Len(config.sections) = 3
    /\ config.sections[1].type # config.sections[2].type
    /\ Len(TopLevelSections) = 3

BarButtons ==
    SelectSeq(output, LAMBDA e : e.el = "button" /\ e.origin = "bar")

FloatingOf(actions) ==
    SelectSeq(actions, LAMBDA a : a.position = Some("floating"))

\* C6: the buttons of the action bar are exactly the actions of
\* config.actions whose position is "floating", in their original order; an
\* action whose position is "top", "bottom" or absent has no button.
C6_FloatingOnly ==
    Composed =>
        IF config.actions = None
        THEN BarButtons = <<>> /\ Kinds("actionbar") = {}
        ELSE LET floating == FloatingOf(config.actions[1])
             IN  /\ Len(BarButtons) = Len(floating)
                 /\ \A k \in DOMAIN floating :
                       /\ BarButtons[k].actionId = floating[k].id
                       /\ BarButtons[k].label = floating[k].label
                 /\ Cardinality(Kinds("actionbar")) <= 1

C6_Witness ==
    /\ Composed
    /\ config.actions # None
    /\ Len(config.actions[1]) = 2
    /\ config.actions[1][1].position = None
    /\ config.actions[1][2].position = Some("floating")
    /\ Len(BarButtons) = 1

IsPrefix(p, q) == Len(p) <= Len(q) /\ SubSeq(q, 1, Len(p)) = p

\* The elements made for the section at a path itself, without the places
\* they were made for.
OwnContent(p) ==
    LET own == SelectSeq(output, LAMBDA e : e.path = p)
    IN  [i \in DOMAIN own |->
            IF own[i].el = "section"
            THEN [own[i] EXCEPT !.path = <<>>, !.id = ""]
            ELSE [own[i] EXCEPT !.path = <<>>]]

\* A section without its place in the tree.
Detached(section) == [section EXCEPT !.id = "", !.children = None]

\* C7: a section with children renders its own content first and then every
\* child, in children order, each child with all of its subtree before the
\* next child; a section renders the same content wherever it is nested.
C7_ChildrenAfterContent ==
    Composed =>
        LET paths == ConfigPaths
            section == [p \in paths |-> SectionAt(config.sections, p)]
            own == [p \in paths |-> OwnContent(p)]
            \* The positions of the elements made for the subtree at p.
            subtree == [p \in paths |->
                          {j \in DOMAIN output : IsPrefix(p, output[j].path)}]
        IN  /\ \A p \in paths :
                  /\ Cardinality(At("section", p)) = 1
                  /\ Cardinality(Bodies(p)) = 1
                  /\ \A i \in 1..ChildCount(section[p]) :
                        /\ p \o <<i>> \in paths
                        /\ \A c \in At("section", p \o <<i>>) :
                              /\ \A j \in subtree[p \o <<i>>] : j >= c
                              /\ \A j \in subtree[p] :
                                    output[j].path = p => j < c
                              /\ i > 1 =>
                                    \A j \in subtree[p \o <<i - 1>>] : j < c
            /\ \A p, q \in paths :
                  Detached(section[p]) = Detached(section[q])
                    => own[p] = own[q]

C7_Witness ==
    /\ Composed
    /\ \E p \in ConfigPaths :
          /\ ChildCount(SectionAt(config.sections, p)) = 2
          /\ At("section", p \o <<2>>) # {}
          /\ At("item", p) # {}

\* The visibility rule of a section for a caller who is authenticated or not.
Visible(section, authenticated) ==
    \/ section.visibility = None
    \/ section.visibility[1].condition = "always"
    \/ section.visibility[1].condition = "authenticated" /\ authenticated
    \/ section.visibility[1].condition = "anonymous" /\ ~authenticated

\* C8 as stated: whatever the caller's auth state, a section is rendered
\* exactly when its visibility rule and the rules of all its ancestors hold
\* for that auth state.  The renderer takes no auth state: one output serves
\* the authenticated and the anonymous caller.
C8_VisibilityGate ==
    Composed =>
        \A authenticated \in BOOLEAN :
            \A p \in ConfigPaths :
                At("section", p) # {}
                  <=> \A k \in 1..Len(p) :
                         Visible(SectionAt(config.sections, SubSeq(p, 1, k)),
                                 authenticated)

ItemsMissing(section) ==
    \/ section.content = None
    \/ section.content[1].items = None
    \/ section.content[1].items = Some(<<>>)

\* C9: a cards, list, timeline, hero, alerts or recommendations section whose
\* content is absent or has no items hands its component the empty sequence
\* as items; no item is rendered for it and the render pass does not fail.
C9_EmptyItems ==
    /\ pc # "crashed"
    /\ Composed =>
         \A p \in ConfigPaths :
            LET section == SectionAt(config.sections, p)
            IN  (/\ section.type \in {"cards", "list", "timeline", "hero",
                                      "alerts", "recommendations"}
                 /\ ItemsMissing(section))
                  => /\ Cardinality(At("sub", p)) = 1
                     /\ \A i \in At("sub", p) :
                           output[i].props.items = Some(<<>>)
                     /\ At("item", p) = {}

C9_Witness ==
    /\ Composed
    /\ Len(config.sections) = 1
    /\ config.sections[1].type = "cards"
    /\ config.sections[1].content = Some([items |-> None])
    /\ At("sub", <<1>>) # {}

\* The action of the config a rendered button was made for.
ActionOf(button) ==
    IF button.origin = "bar"
    THEN FloatingOf(config.actions[1])[button.idx]
    ELSE SectionAt(config.sections, button.path)
            .content[1].items[1][button.item].actions[1][button.idx]

\* C10: every call of onAction answers one trigger of a rendered button, in
\* trigger order, and carries the id and the payload of that button's action
\* in the config; rendering alone calls nothing, and without an onAction no
\* trigger calls anything.
C10_OnActionOnly ==
    /\ pc # "crashed"
    /\ onAction = None => calls = <<>>
    /\ onAction # None =>
         /\ Len(calls) = Len(triggers)
         /\ \A k \in DOMAIN calls :
               LET action == ActionOf(output[triggers[k]])
               IN  /\ calls[k].handler = onAction[1]
                   /\ calls[k].actionId = action.id
                   /\ calls[k].payload = action.payload

C10_Witness ==
    /\ onAction # None
    /\ Len(triggers) = MaxTriggers
    /\ Len(calls) = Len(triggers)
    /\ output[triggers[1]].origin = "item"
    /\ Len(output[triggers[1]].path) >= 2
    /\ calls[1].payload = Some([activityId |-> 7])


Showing(text, path) ==
    {i \in DOMAIN output :
        /\ output[i].path = path
        /\ output[i].el \in {"h2", "h3", "title"}
        /\ output[i].text = text}

ItemTakingTypes ==
    {"header", "hero", "cards", "list", "timeline", "alerts",
     "recommendations"}

\* The items prop the component of the section at a path was mounted with.
ItemsProp(path) == {output[i].props.items : i \in At("sub", path)}

\* content.items when present, the empty sequence when absent.
ItemsExpected(section) ==
    IF ContentItems(section) = None THEN Some(<<>>)
    ELSE ContentItems(section)

\* C13 as stated: every item-taking component, the header's included, is
\* handed content.items unchanged when present and the empty sequence when
\* absent.
C13_ItemsUnchangedHeaderIncluded ==
    /\ pc # "crashed"
    /\ Composed =>
         \A p \in ConfigPaths :
            LET section == SectionAt(config.sections, p)
            IN  section.type \in ItemTakingTypes
                  => ItemsProp(p) = {ItemsExpected(section)}

\* C13: every item-taking component other than the header is handed
\* content.items unchanged (same items, same order) when present and the
\* empty sequence when absent; the header is handed the empty sequence
\* whatever content.items holds.
C13_ItemsUnchangedButHeader ==
    /\ pc # "crashed"
    /\ Composed =>
         \A p \in ConfigPaths :
            LET section == SectionAt(config.sections, p)
            IN  /\ section.type \in ItemTakingTypes \ {"header"}
                      => ItemsProp(p) = {ItemsExpected(section)}
                /\ section.type = "header"
                      => ItemsProp(p) = {Some(<<>>)}

C13_Witness ==
    /\ Composed
    /\ Len(config.sections) = 1
    /\ config.sections[1].type = "list"
    /\ ContentItems(config.sections[1]) # None
    /\ Len(ContentItems(config.sections[1])[1]) = MaxItems
    /\ ItemsProp(<<1>>) = {ContentItems(config.sections[1])}
    /\ Cardinality(At("item", <<1>>)) = MaxItems


\* The ways a section is degraded: a type the dispatcher does not know, no
\* content, content without items.
Degradations == {"unknown type", "no content", "no items"}

Degraded(section, kind) ==
    CASE kind = "unknown type" -> [section EXCEPT !.type = "widget"]
      [] kind = "no content" -> [section EXCEPT !.content = None]
      [] kind = "no items" ->
           [section EXCEPT !.content = Some([items |-> None])]

RECURSIVE WithSectionAt(_, _, _)
\* A section list with the section at a path replaced.
WithSectionAt(sections, path, s) ==
    [i \in DOMAIN sections |->
        IF i # path[1] THEN sections[i]
        ELSE IF Len(path) = 1 THEN s
        ELSE [sections[i] EXCEPT
                !.children = Some(WithSectionAt(sections[i].children[1],
                                                Tail(path), s))]]

\* The render pass of the config with the section at a path degraded.
RenderDegraded(path, kind) ==
    LayoutRenderer(
        [config EXCEPT
           !.sections = WithSectionAt(config.sections, path,
                            Degraded(SectionAt(config.sections, path), kind))],
        onAction, data, loading, error)

\* What a render pass shows outside the own output of the section at a path:
\* its siblings, its ancestors' own content, its descendants, the action bar.
Elsewhere(els, path) == SelectSeq(els, LAMBDA e : e.path # path)

\* A render pass has composed the layout and no button has been triggered
\* since.
Passed == Composed /\ triggers = <<>>

\* C14: degrading one section (unknown type, no content, no items) leaves
\* what the pass renders for every other section unchanged, the pass does
\* not fail, and every section of the config still has its container.
C14_SectionsIndependent ==
    Passed =>
        \A p \in ConfigPaths :
            LET elsewhere == Elsewhere(output, p)
            IN  \A kind \in Degradations :
                   LET els == RenderDegraded(p, kind)
                   IN  /\ ~Throws(els)
                       /\ Elsewhere(els, p) = elsewhere
                       /\ \A q \in ConfigPaths :
                             \E i \in DOMAIN els :
                                /\ els[i].el = "section"
                                /\ els[i].path = q

C14_Witness ==
    /\ Composed
    /\ Len(config.sections) = 2
    /\ ChildCount(config.sections[1]) = 1
    /\ \A p \in ConfigPaths :
          /\ SectionAt(config.sections, p).type = "cards"
          /\ At("item", p) # {}
    /\ \A kind \in Degradations : RenderDegraded(<<1>>, kind) # output


OwnsTrip(user, tripId) ==
    \E t \in trips : t.id = tripId /\ t.userId = user[1].id

\* C16: a call of trips.update or trips.delete by an authenticated user who
\* does not own a stored trip with the given id ends with FORBIDDEN and
\* leaves every stored trip as it was; a handler gets past the check only
\* for the owner, and its write touches no trip but the one it was called
\* for.
C16_OwnerOnly ==
    [][/\ (/\ reply = None
           /\ reply' # None
           /\ reply'[1].op \in {"trips.update", "trips.delete"}
           /\ reply'[1].user # None
           /\ ~OwnsTrip(reply'[1].user, reply'[1].input.tripId))
          => /\ reply'[1].code = "FORBIDDEN"
             /\ trips' = trips
             /\ pending' = pending
       /\ (pending = None /\ pending' # None)
          => OwnsTrip(pending'[1].user, pending'[1].input.tripId)
       /\ (pending # None /\ pending' = None)
          => {t \in trips : t.id # pending[1].input.tripId}
               = {t \in trips' : t.id # pending[1].input.tripId}]_vars

C16_Witness ==
    /\ reply # None
    /\ reply[1].op = "trips.update"
    /\ reply[1].code = "FORBIDDEN"
    /\ reply[1].user = Some([id |-> 2])
    /\ Cardinality(trips) = 2
    /\ \E t \in trips : t.id = reply[1].input.tripId /\ t.userId = 1
    /\ \E t \in trips : t.userId = 2

\* C17 as stated: trips.get and trips.getWithDetails hand a trip to no
\* caller but its owner; a caller without a session gets none.
C17_OwnTripsOnly ==
    (/\ reply # None
     /\ reply[1].op \in {"trips.get", "trips.getWithDetails"}
     /\ reply[1].code = "OK")
      => /\ reply[1].user # None
         /\ reply[1].body[1].userId = reply[1].user[1].id

\* C18 as stated: trips.create without a session, on an available database,
\* stores a trip with status "draft" and returns it.
C18_AnonymousCreate ==
    (/\ reply # None
     /\ reply[1].op = "trips.create"
     /\ reply[1].user = None
     /\ database)
      => /\ reply[1].code = "OK"
         /\ reply[1].body[1].status = "draft"
         /\ reply[1].body[1] \in trips

\* C19 as stated: the write of updateTrip stores MergePatch(C, P) as the
\* trip's tripData, C being the stored tripData and P the update's, and
\* leaves name, description and status alone when the update has none.
C19_MergePatch ==
    [][(/\ pending # None
        /\ pending[1].at = "set"
        /\ pending' = None
        /\ pending[1].input.tripData # None)
         => \A t \in trips :
               t.id = pending[1].input.tripId
                 => \E u \in trips' :
                       /\ u.id = t.id
                       /\ u.tripData =
                            MergePatch(t.tripData,
                                       pending[1].input.tripData[1])
                       /\ pending[1].input.name = None => u.name = t.name
                       /\ pending[1].input.description = None
                            => u.description = t.description
                       /\ pending[1].input.status = None
                            => u.status = t.status]_vars

\* The ids of a sequence of rows.
Ids(rows) == [i \in DOMAIN rows |-> rows[i].id]

\* The rows of a sequence whose id is among the ids of another.
Among(rows, listed) ==
    SelectSeq(rows, LAMBDA a : \E i \in DOMAIN listed : listed[i].id = a.id)

\* C20 as stated: once itineraries.reorderActivities has answered success,
\* every read of the itinerary's activities -- by getItineraryWithActivities
\* and by getTripWithDetails -- lists the reordered activities in the order
\* of the answer.
C20_ReorderPersists ==
    (/\ reply # None
     /\ reply[1].op = "itineraries.reorderActivities"
     /\ reply[1].code = "OK")
      => LET ordered == reply[1].body[1].activities
         IN  /\ \A read \in ItineraryActivities(reply[1].input.itineraryId) :
                   Ids(Among(read, ordered)) = Ids(ordered)
             /\ \A t \in trips :
                   \A read \in TripActivities(t.id) :
                      Ids(Among(read, ordered)) = Ids(Among(ordered, read))

-----------------------------------------------------------------------------
(* trips.list.                                                              *)

\* C21: a trips.list response holds at most limit trips, all of the caller,
\* total is the number of trips the caller owns, and hasMore is true exactly
\* when offset + limit is less than that number.
C21_ListPaginates ==
    (reply # None /\ reply[1].op = "trips.list" /\ reply[1].code = "OK") =>
        LET caller == reply[1].user[1].id
            input == reply[1].input
            body == reply[1].body[1]
            owned == Cardinality({t \in trips : t.userId = caller})
        IN  /\ Len(body.trips) <= input.limit
            /\ \A i \in DOMAIN body.trips : body.trips[i].userId = caller
            /\ body.total = owned
            /\ body.hasMore <=> (input.offset + input.limit < owned)

\* The second page of one trip is asked for by a user who owns one trip
\* while another user owns a trip as well: the page is empty.
C21_Witness ==
    /\ reply # None
    /\ reply[1].op = "trips.list"
    /\ reply[1].code = "OK"
    /\ reply[1].input = [limit |-> 1, offset |-> 1]
    /\ reply[1].body[1].total = 1
    /\ \E t \in trips : t.userId # reply[1].user[1].id

-----------------------------------------------------------------------------
(* alerts.getEmergencies.                                                   *)

\* The fetch failed, the status was not OK, or the body was not a JSON
\* object whose events member is an array of event objects, as far as the
\* handler reads it.
UpstreamFailed(response) ==
    \/ response.kind = "rejected"
    \/ ~response.ok
    \/ response.json.t # "obj"
    \/ response.json.m.events.t # "arr"
    \/ \E i \in DOMAIN response.json.m.events.a :
          i <= 20 /\ response.json.m.events.a[i].t # "obj"

\* C22: the handler always returns a result; it is {alerts: [],
\* totalCount: 0} when the upstream failed or sent a malformed body, and
\* otherwise holds at most 20 alerts and their number as totalCount.
C22_NeverFails ==
    [][(pending # None /\ pending[1].op = "alerts.getEmergencies"
          /\ pending[1].at = "settled" /\ pending' = None) =>
         /\ reply' # None
         /\ reply'[1].code = "OK"
         /\ LET body == reply'[1].body[1]
            IN  IF UpstreamFailed(pending[1].response[1])
                THEN body = [alerts |-> <<>>, totalCount |-> 0]
                ELSE /\ Len(body.alerts) <= 20
                     /\ body.totalCount = Len(body.alerts)
                     /\ Len(body.alerts) > 0
                          \/ pending[1].response[1].json.m.events.a = <<>>]_vars

\* A body of more than 20 events has been answered with 20 alerts.
C22_Witness ==
    /\ reply # None
    /\ reply[1].op = "alerts.getEmergencies"
    /\ Len(reply[1].body[1].alerts) = 20
    /\ reply[1].body[1].totalCount = 20

\* A degree of latitude is at least 110 km long, so two points whose
\* latitudes differ by d degrees are at least 110 * d km apart.
KmApart(d) == 110 * d

Apart(a, b) == IF a < b THEN b - a ELSE a - b

\* C23: every alert of a response lies within radiusKm of the requested
\* latitude and longitude.
C23_WithinRadius ==
    (reply # None /\ reply[1].op = "alerts.getEmergencies") =>
        \A i \in DOMAIN reply[1].body[1].alerts :
            LET at == reply[1].body[1].alerts[i].coordinates
            IN  at.latitude.t = "num" =>
                   KmApart(Apart(at.latitude.v, reply[1].input.latitude))
                     <= reply[1].input.radiusKm

-----------------------------------------------------------------------------
(* Reading trips after a delete.                                            *)

\* The columns of a trip in a response body.
TripColumns(body) ==
    [id |-> body.id, userId |-> body.userId, name |-> body.name,
     description |-> body.description, tripData |-> body.tripData,
     status |-> body.status]

\* C24: trips.get and trips.getWithDetails answer NOT_FOUND exactly when no
\* trip with the id is stored, and otherwise return the stored trip; a
\* successful trips.delete removes its trip and no other, and a trip that
\* is gone stays gone.
C24_NotFoundIffNotStored ==
    [][/\ (reply = None /\ reply' # None
           /\ reply'[1].op \in {"trips.get", "trips.getWithDetails"}) =>
            LET stored == {t \in trips' : t.id = reply'[1].input.tripId}
            IN  /\ reply'[1].code \in {"OK", "NOT_FOUND"}
                /\ reply'[1].code = "NOT_FOUND" <=> stored = {}
                /\ reply'[1].code = "OK" =>
                      stored = {TripColumns(reply'[1].body[1])}
       /\ (reply = None /\ reply' # None /\ reply'[1].op = "trips.delete"
           /\ reply'[1].code = "OK") =>
            trips' = {t \in trips : t.id # reply'[1].input.tripId}
       /\ \A id \in 1..MaxTrips :
            (id < autoIncrement.trips /\ ~\E t \in trips : t.id = id) =>
               ~\E t \in trips' : t.id = id]_vars

\* trips.get answers NOT_FOUND for a trip that was deleted while another
\* trip is still stored.
C24_Witness ==
    /\ reply # None
    /\ reply[1].op = "trips.get"
    /\ reply[1].code = "NOT_FOUND"
    /\ reply[1].input.tripId < autoIncrement.trips
    /\ trips # {}

-----------------------------------------------------------------------------
(* The trip-creation page.                                                  *)

\* The toasts of handleSaveTrip when it sends nothing.
SaveRefusals ==
    {"Destination is required", "Add at least one activity",
     "Please log in to save your trip"}

\* C25: trips.create is sent only for a draft with a non-blank destination
\* and an activity, by an authenticated user, and carries that draft; a
\* save that is refused sends nothing and leaves the draft as it was; and
\* activities are added and removed without a session.
C25_SaveNeedsSession ==
    [][/\ mutations' # mutations =>
            /\ trim(draftTrip.destination) # <<>>
            /\ draftTrip.activities # <<>>
            /\ isAuthenticated
            /\ mutations' = Append(mutations,
                               [name |-> draftTrip.destination,
                                tripData |->
                                  [activities |-> draftTrip.activities,
                                   notes |-> <<>>]])
            /\ draftTrip' = draftTrip
       /\ (Len(toasts') > Len(toasts)
             /\ toasts'[Len(toasts')] \in SaveRefusals) =>
            /\ mutations' = mutations
            /\ draftTrip' = draftTrip
            /\ \/ trim(draftTrip.destination) = <<>>
               \/ draftTrip.activities = <<>>
               \/ ~isAuthenticated
       /\ (Len(toasts') > Len(toasts)
             /\ toasts'[Len(toasts')] = "Activity added!") =>
            /\ Len(draftTrip'.activities) = Len(draftTrip.activities) + 1
            /\ SubSeq(draftTrip'.activities, 1, Len(draftTrip.activities))
                 = draftTrip.activities]_vars

\* A visitor without a session has built a draft with a destination and an
\* activity, and the save was refused: nothing was sent.
C25_Witness ==
    /\ ~isAuthenticated
    /\ trim(draftTrip.destination) # <<>>
    /\ draftTrip.activities # <<>>
    /\ toasts = <<"Please log in to save your trip">>
    /\ mutations = <<>>

-----------------------------------------------------------------------------
(* The traversal of the section tree.                                       *)

\* The positions in the output of the containers and of the dispatched
\* bodies.
Dispatches ==
    Kinds("section") \cup Kinds("sub") \cup Kinds("placeholder")

\* C26: a render pass over a finite section tree ends with one container
\* and one dispatched body for every section at every depth, and with none
\* for anything else.
C26_EverySectionOnce ==
    Passed =>
        /\ \A p \in ConfigPaths :
              /\ Cardinality(At("section", p)) = 1
              /\ Cardinality(Bodies(p)) = 1
        /\ \A i \in Dispatches : output[i].path \in ConfigPaths

\* A section nested three deep has been rendered.
C26_Witness ==
    /\ Passed
    /\ \E p \in ConfigPaths : Len(p) = 3 /\ At("section", p) # {}

-----------------------------------------------------------------------------
(* The result of reorderActivities.                                         *)

\* C27: the activities of a reorderActivities response are the stored
\* activities of the itinerary named by the ids of the request, in the
\* order of the request: ids of no activity of the itinerary are dropped,
\* activities not named are left out, no other itinerary's activity occurs.
C27_ReorderResult ==
    (reply # None /\ reply[1].op = "itineraries.reorderActivities"
       /\ reply[1].code = "OK") =>
        LET own == {a \in activities :
                       a.itineraryId = reply[1].input.itineraryId}
            named == SelectSeq(reply[1].input.activityIds,
                               LAMBDA id : \E a \in own : a.id = id)
            result == reply[1].body[1].activities
        IN  /\ Ids(result) = named
            /\ \A i \in DOMAIN result : result[i] \in own

\* A request that names an activity of the other itinerary, an id that is
\* not stored and an activity of the itinerary is answered with that one
\* activity.
C27_Witness ==
    /\ reply # None
    /\ reply[1].op = "itineraries.reorderActivities"
    /\ reply[1].code = "OK"
    /\ Len(reply[1].body[1].activities) = 1
    /\ \E i \in DOMAIN reply[1].input.activityIds :
          \E a \in activities :
             /\ a.id = reply[1].input.activityIds[i]
             /\ a.itineraryId # reply[1].input.itineraryId
    /\ \E i \in DOMAIN reply[1].input.activityIds :
          \A a \in activities : a.id # reply[1].input.activityIds[i]

-----------------------------------------------------------------------------
(* Calls of updateTrip side by side.                                        *)

\* C28: once two calls of updateTrip that patch different keys of one
\* trip's tripData have both returned, the stored tripData holds the value
\* of each patch under its key.
C28_NoLostUpdate ==
    (\A c \in DOMAIN updateCalls : updateCalls[c].at = "returned") =>
        \A c \in DOMAIN updateCalls :
            \A t \in trips :
                t.id = updateCalls[c].tripId =>
                    \A k \in Keys :
                        LET patch == updateCalls[c].updates.tripData[1]
                        IN  patch[k].t # "absent" => t.tripData[k] = patch[k]

-----------------------------------------------------------------------------
(* Activities and the itineraries they are added to.                        *)

\* C29: every stored activity belongs to an itinerary of its own trip.
C29_ActivityInItineraryOfTrip ==
    \A a \in activities :
        \E i \in itineraries : i.id = a.itineraryId /\ i.tripId = a.tripId

-----------------------------------------------------------------------------
(* Trips of userId 0.                                                       *)

\* The stored trips of userId 0.
AnonymousTrips(table) == {t \in table : t.userId = 0}

\* C30: trips.update and trips.delete by an authenticated caller on a trip
\* of userId 0 answer FORBIDDEN, no handler goes on to write such a trip,
\* and no step changes or removes one.
C30_AnonymousTripFrozen ==
    [][/\ (reply = None /\ reply' # None
           /\ reply'[1].op \in {"trips.update", "trips.delete"}
           /\ reply'[1].user # None
           /\ \E t \in AnonymousTrips(trips) :
                 t.id = reply'[1].input.tripId) =>
            reply'[1].code = "FORBIDDEN"
       /\ (pending = None /\ pending' # None) =>
            ~\E t \in AnonymousTrips(trips) :
                 t.id = pending'[1].input.tripId
       /\ AnonymousTrips(trips') = AnonymousTrips(trips)]_vars

\* A registered user's trips.update on the trip of userId 0 has been
\* answered FORBIDDEN.
C30_Witness ==
    /\ reply # None
    /\ reply[1].op = "trips.update"
    /\ reply[1].user # None
    /\ reply[1].code = "FORBIDDEN"
    /\ \E t \in AnonymousTrips(trips) : t.id = reply[1].input.tripId

====
